---- MODULE Spec2Model ----
(***************************************************************************)
(* WhisperBot (src/wspr.py): an inline-query bot that stores secret          *)
(* messages in the in-memory dictionary whisper_messages and answers the     *)
(* "show" and "delete" button presses on them.                               *)
(*                                                                           *)
(* Every handler is an asyncio coroutine.  A coroutine runs without          *)
(* interruption from one await to the next, so each handler is cut into      *)
(* steps at its awaits; a task whose position is not an await point keeps    *)
(* the event loop until it reaches one (see AwaitPoints and CanRun).         *)
(* Strings are sequences of one-character strings.                           *)
(***************************************************************************)
EXTENDS Integers, Sequences, FiniteSets, TLC

(* ------------------------------ bounds --------------------------------- *)
\* number of handler invocations that may be in flight at once
MaxTasks == 2
\* number of inline queries delivered over a run
MaxQueries == 2
\* number of button presses delivered over a run
MaxPresses == 2
\* number of values generate_message_id may return in the model
NumIds == 2
\* number of principals talking to the bot
NumUsers == 2

(* --------------------------- program constants ------------------------- *)
\* random.randint(10000000, 999999999): the lower end of the range
MinMessageId == 10000000

Tasks == 1..MaxTasks
UserIds == 1..NumUsers
MessageIds == MinMessageId..(MinMessageId + NumIds - 1)

(* ------------------------------ strings -------------------------------- *)
Digits == <<"0", "1", "2", "3", "4", "5", "6", "7", "8", "9">>

DigitChars == {Digits[i] : i \in 1..Len(Digits)}

DigitValue(c) == (CHOOSE i \in 1..Len(Digits) : Digits[i] = c) - 1

\* str.isdigit(): non-empty and every character a digit
IsDigitStr(s) == Len(s) > 0 /\ \A i \in 1..Len(s) : s[i] \in DigitChars

\* int(s) for a digit string
RECURSIVE StrToInt(_)
StrToInt(s) ==
    IF Len(s) = 0 THEN 0
    ELSE 10 * StrToInt(SubSeq(s, 1, Len(s) - 1)) + DigitValue(s[Len(s)])

\* the decimal text of a non-negative integer, as an f-string formats it
RECURSIVE IntToStr(_)
IntToStr(n) ==
    IF n < 10 THEN <<Digits[n + 1]>>
    ELSE IntToStr(n \div 10) \o <<Digits[(n % 10) + 1]>>

IsSpace(c) == c = " "

RECURSIVE StripLeft(_)
StripLeft(s) ==
    IF Len(s) > 0 /\ IsSpace(s[1]) THEN StripLeft(Tail(s)) ELSE s

\* the length of the leading run of non-whitespace characters of s
RECURSIVE WordLen(_)
WordLen(s) ==
    IF Len(s) = 0 \/ IsSpace(s[1]) THEN 0 ELSE 1 + WordLen(Tail(s))

\* s.split(maxsplit=1): the first word, then the remainder with its leading
\* whitespace removed and its trailing whitespace kept; no empty parts
SplitOnce(s) ==
    LET t == StripLeft(s)
        n == WordLen(t)
        rest == StripLeft(SubSeq(t, n + 1, Len(t)))
    IN  IF Len(t) = 0 THEN << >>
        ELSE IF Len(rest) = 0 THEN <<SubSeq(t, 1, n)>>
        ELSE <<SubSeq(t, 1, n), rest>>

StartsWith(s, p) == Len(s) >= Len(p) /\ SubSeq(s, 1, Len(p)) = p

(* ------------------------------ inputs --------------------------------- *)
WsprPrefix == <<"w", "s", "p", "r">>
MsgPrefix == <<"m", "s", "g">>
ShowPrefix == <<"s", "h", "o", "w", "_">>
DelPrefix == <<"d", "e", "l", "_">>

\* the handle a principal may carry in an event; the empty string is "no handle"
NoName == << >>
Usernames == {<<"a">>}

Seps == {<< >>, <<" ">>}
Gaps == {<<" ">>}
TargetTexts ==
    {<< >>, <<"9">>}
        \cup {IntToStr(u) : u \in UserIds}
        \cup Usernames
        \cup {<<"@">> \o n : n \in Usernames}
BodyTexts == {<< >>, <<"x">>, <<"y", " ">>}

WsprQueries ==
    {WsprPrefix \o s1 \o tg \o s2 \o bd :
        s1 \in Seps, tg \in TargetTexts, s2 \in Gaps, bd \in BodyTexts}
MsgQueries == {MsgPrefix \o s1 \o tg : s1 \in Seps, tg \in TargetTexts}
InlineQueries == WsprQueries \cup MsgQueries

\* callback_data of the two buttons of an answer: f"show_{id}", f"del_{id}"
ShowData(id) == ShowPrefix \o IntToStr(id)
DelData(id) == DelPrefix \o IntToStr(id)
CallbackDatas == {ShowData(i) : i \in MessageIds} \cup {DelData(i) : i \in MessageIds}

\* int(callback_query.matches[0].group(1)) for a data matching ^<prefix>(\d+)$
MatchesCallback(data, prefix) ==
    StartsWith(data, prefix) /\ IsDigitStr(SubSeq(data, Len(prefix) + 1, Len(data)))
CallbackId(data, prefix) == StrToInt(SubSeq(data, Len(prefix) + 1, Len(data)))

(* ------------------------------- state --------------------------------- *)
VARIABLES
    whisper_messages,  \* message_id -> [target_id, sender_id, message_text]
    users,             \* users_collection: user_id -> document
    tasks,             \* the handler invocations in flight
    nQueries,          \* inline queries delivered so far
    nPresses,          \* button presses delivered so far
    handle,            \* the platform's current handle of each principal
    hist               \* the first whisper registered: its identifier, its entry
                       \* and whether a delete by the sender of that entry has
                       \* been answered "deleted"

vars == <<whisper_messages, users, handle, tasks, nQueries, nPresses, hist>>

Res(kind, text, buttons) == [kind |-> kind, text |-> text, buttons |-> buttons]
NoRes == Res("none", << >>, {})

Entry(target_id, sender_id, message_text) ==
    [target_id |-> target_id, sender_id |-> sender_id, message_text |-> message_text]

Idle ==
    [kind |-> "idle", pc |-> "idle", user |-> 0, uname |-> NoName,
     qp |-> << >>, mid |-> 0, res |-> NoRes]

NewTask(kind, pc, user, uname, qp, mid) ==
    [kind |-> kind, pc |-> pc, user |-> user, uname |-> uname,
     qp |-> qp, mid |-> mid, res |-> NoRes]

Absent == [present |-> FALSE, username |-> NoName]
Doc(username) == [present |-> TRUE, username |-> username]

\* as AwaitPoints, with an await between the existence check and the read of
\* the entry in both button handlers
AwaitPoints_beforeRead ==
    {"w_upsert", "w_lookup", "w_answer",
     "m_upsert", "m_lookup", "m_answer",
     "s_read", "s_answer", "d_read", "d_answer", "d_edit",
     "c_upsert", "c_getme1", "c_getme2", "c_reply",
     "h_getme1", "h_getme2", "h_reply"}

\* the positions at which a handler is suspended in an await
AwaitPoints ==
    {"w_upsert", "w_lookup", "w_answer",
     "m_upsert", "m_lookup", "m_answer",
     "s_answer", "d_answer", "d_edit",
     "c_upsert", "c_getme1", "c_getme2", "c_reply",
     "h_getme1", "h_getme2", "h_reply"}

Suspended(o) == tasks[o].pc \in AwaitPoints \cup {"idle"}

\* task t may take a step: no other task is between two awaits
CanRun(t) == \A o \in Tasks \ {t} : Suspended(o)

\* the dispatcher may start a handler: it runs only while every task awaits
CanStart == \A o \in Tasks : Suspended(o)

Set(t, rec) == tasks' = [tasks EXCEPT ![t] = rec]

\* a handler invocation takes the first free slot
Free(t) == tasks[t].kind = "idle" /\ \A o \in Tasks : o < t => tasks[o].kind # "idle"

\* query.split(maxsplit=1) without its first word, which no handler reads:
\* empty when len(query_parts) < 2, else <<query_parts[1]>>
QueryParts(q) == Tail(SplitOnce(q))

(* --------------------------- helper functions -------------------------- *)
\* generate_message_id(): any value of the range, whatever is pending
generate_message_id(pending) == MessageIds

\* as get_user_info, but a numeric target is taken as a principal without
\* looking it up in the collection
get_user_info_unchecked(us, username_or_id) ==
    IF IsDigitStr(username_or_id)
    THEN {u \in UserIds : u = StrToInt(username_or_id)}
    ELSE LET name == IF StartsWith(username_or_id, <<"@">>)
                     THEN Tail(username_or_id) ELSE username_or_id
         IN  {u \in UserIds :
                us[u].present /\ us[u].username # NoName /\ us[u].username = name}

\* as get_user_info, without the removal of the leading "@"
get_user_info_noStrip(us, username_or_id) ==
    IF IsDigitStr(username_or_id)
    THEN {u \in UserIds : us[u].present /\ u = StrToInt(username_or_id)}
    ELSE {u \in UserIds :
            us[u].present /\ us[u].username # NoName
                          /\ us[u].username = username_or_id}

\* get_user_info(username_or_id): the documents find_one may return
get_user_info(us, username_or_id) ==
    IF IsDigitStr(username_or_id)
    THEN {u \in UserIds : us[u].present /\ u = StrToInt(username_or_id)}
    ELSE LET name == IF StartsWith(username_or_id, <<"@">>)
                     THEN Tail(username_or_id) ELSE username_or_id
         IN  {u \in UserIds :
                us[u].present /\ us[u].username # NoName /\ us[u].username = name}

\* store_user_info(user): update_one({"user_id": id}, {"$set": user_data}, upsert=True);
\* user_data carries "username" only when the user has one, so a document keeps
\* the handle it had.  The two caches written afterwards (lines 119-128) are
\* read nowhere and are left out.
store_user_info(us, id, username) ==
    [us EXCEPT ![id] =
        Doc(IF username # NoName THEN username
            ELSE IF us[id].present THEN us[id].username ELSE NoName)]

\* as ShowResult, with the requester compared to the sender
ShowResult_bySender(entry, requester) ==
    IF requester = entry.sender_id
    THEN Res("Body", entry.message_text, {})
    ELSE Res("NotForYou", << >>, {})

\* show_message_callback, lines 316-322: what the alert says
ShowResult(entry, requester) ==
    IF requester = entry.target_id
    THEN Res("Body", entry.message_text, {})
    ELSE Res("NotForYou", << >>, {})

\* del whisper_messages[message_id]
Remove(wm, id) == [i \in (DOMAIN wm) \ {id} |-> wm[i]]

\* as StoreAfterShow, with the entry dropped once it has been read
StoreAfterShow_once(wm, id) == Remove(wm, id)

\* show_message_callback leaves whisper_messages as it found it
StoreAfterShow(wm, id) == wm

\* as IsSender, with the requester compared to the recipient
IsSender_byTarget(entry, requester) == requester = entry.target_id

\* delete_message_callback, line 339: the sender check
IsSender(entry, requester) == requester = entry.sender_id

\* as Put, with the assignment left out
Put_dropped(wm, id, e) == wm

\* whisper_messages[message_id] = [...]
Put(wm, id, e) == [i \in (DOMAIN wm) \cup {id} |-> IF i = id THEN e ELSE wm[i]]

\* query_parts[1].split(maxsplit=1) of a whisper query with a target
TargetAndBody(qp) == SplitOnce(qp[1])

\* handle_wspr_query, line 175: a body is required
HasBody(qp) == Len(TargetAndBody(qp)) >= 2

\* as EditsAfter, with the edit made after every answer
EditsAfter_always(res) == TRUE

\* delete_message_callback, lines 339-352: the edit of the posted content
\* stands in the branch of the sender's delete, after its answer
EditsAfter(res) == res.kind = "Deleted"

\* as Rejection, with the missing-body check made before the not-found check
Rejection_bodyFirst(found, qp) ==
    IF ~HasBody(qp) THEN "TypeMessage"
    ELSE IF found = {} THEN "UserNotFound"
    ELSE "none"

\* handle_wspr_query, lines 160-187: the early return taken after the lookup,
\* "none" when the query goes on to the registration
Rejection(found, qp) ==
    IF found = {} THEN "UserNotFound"
    ELSE IF ~HasBody(qp) THEN "TypeMessage"
    ELSE "none"

(* ------------------------------- Init ---------------------------------- *)
\* A fresh deployment: no whisper, no profile document, no handler running.
\* Principal 1 carries the handle "a" on the platform, the others none.
NeverSeen == [state |-> "never", id |-> 0, entry |-> Entry(0, 0, << >>)]

Init ==
    /\ whisper_messages = << >>
    /\ users = [u \in UserIds |-> Absent]
    /\ tasks = [t \in Tasks |-> Idle]
    /\ nQueries = 0
    /\ nPresses = 0
    /\ handle = [u \in UserIds |-> IF u = 1 THEN <<"a">> ELSE NoName]
    /\ hist = NeverSeen

(* ------------------- handle_wspr_query (lines 131-223) ----------------- *)
\* the dispatcher starts the handler: query.split(maxsplit=1), then the
\* handler awaits store_user_info
WsprQuery(t, u, q) ==
    /\ nQueries < MaxQueries
    /\ CanStart
    /\ Free(t)
    /\ StartsWith(q, WsprPrefix)
    /\ Set(t, NewTask("wspr", "w_upsert", u, handle[u], QueryParts(q), 0))
    /\ nQueries' = nQueries + 1
    /\ UNCHANGED <<handle, whisper_messages, users, nPresses, hist>>

\* update_one raised: nothing catches it in the handler, the dispatcher logs
\* the exception and the handler ends without an answer
UpsertFails(t) ==
    /\ Set(t, Idle)
    /\ UNCHANGED <<handle, whisper_messages, users, nQueries, nPresses, hist>>

\* await store_user_info(from_user), then the missing-target check
WsprUpsert(t) ==
    /\ tasks[t].pc = "w_upsert"
    /\ CanRun(t)
    /\ \/ UpsertFails(t)
       \/ /\ users' = store_user_info(users, tasks[t].user, tasks[t].uname)
          /\ IF Len(tasks[t].qp) < 1
             THEN Set(t, [tasks[t] EXCEPT !.pc = "w_answer", !.uname = NoName,
                                          !.res = Res("GiveUsername", << >>, {})])
             ELSE Set(t, [tasks[t] EXCEPT !.pc = "w_lookup", !.uname = NoName])
          /\ UNCHANGED <<handle, whisper_messages, nQueries, nPresses, hist>>

\* lines 201: the entry is stored under the generated identifier
Register(t, doc, message_id) ==
    LET e == Entry(doc, tasks[t].user, TargetAndBody(tasks[t].qp)[2])
    IN  /\ whisper_messages' = Put(whisper_messages, message_id, e)
        /\ hist' = IF hist.state = "never"
                   THEN [state |-> "live", id |-> message_id, entry |-> e]
                   ELSE hist
        /\ Set(t, [tasks[t] EXCEPT
                     !.pc = "w_answer", !.qp = << >>, !.mid = message_id,
                     !.res = Res("Whisper", e.message_text,
                                 {ShowData(message_id), DelData(message_id)})])

\* await get_user_info(target) (a failing find_one is caught and gives None),
\* then the not-found and missing-body checks, then the registration
WsprLookup(t) ==
    /\ tasks[t].pc = "w_lookup"
    /\ CanRun(t)
    /\ \E found \in {{}, get_user_info(users, TargetAndBody(tasks[t].qp)[1])} :
         IF Rejection(found, tasks[t].qp) # "none"
         THEN /\ Set(t, [tasks[t] EXCEPT
                           !.pc = "w_answer", !.qp = << >>,
                           !.res = Res(Rejection(found, tasks[t].qp), << >>, {})])
              /\ UNCHANGED <<whisper_messages, hist>>
         ELSE \E doc \in found :
                \E message_id \in generate_message_id(DOMAIN whisper_messages) :
                   Register(t, doc, message_id)
    /\ UNCHANGED <<handle, users, nQueries, nPresses>>

\* await inline_query.answer(results=results)
WsprAnswer(t) ==
    /\ tasks[t].pc = "w_answer"
    /\ CanRun(t)
    /\ Set(t, Idle)
    /\ UNCHANGED <<handle, whisper_messages, users, nQueries, nPresses, hist>>

(* -------------------- handle_msg_query (lines 225-300) ----------------- *)
MsgQuery(t, u, q) ==
    /\ nQueries < MaxQueries
    /\ CanStart
    /\ Free(t)
    /\ ~StartsWith(q, WsprPrefix)
    /\ StartsWith(q, MsgPrefix)
    /\ Set(t, NewTask("msg", "m_upsert", u, handle[u], QueryParts(q), 0))
    /\ nQueries' = nQueries + 1
    /\ UNCHANGED <<handle, whisper_messages, users, nPresses, hist>>

MsgUpsert(t) ==
    /\ tasks[t].pc = "m_upsert"
    /\ CanRun(t)
    /\ \/ UpsertFails(t)
       \/ /\ users' = store_user_info(users, tasks[t].user, tasks[t].uname)
          /\ IF Len(tasks[t].qp) < 1
             THEN Set(t, [tasks[t] EXCEPT !.pc = "m_answer", !.uname = NoName,
                                          !.res = Res("GiveUsername", << >>, {})])
             ELSE Set(t, [tasks[t] EXCEPT !.pc = "m_lookup", !.uname = NoName])
          /\ UNCHANGED <<handle, whisper_messages, nQueries, nPresses, hist>>

MsgLookup(t) ==
    /\ tasks[t].pc = "m_lookup"
    /\ CanRun(t)
    /\ \E found \in {{}, get_user_info(users, tasks[t].qp[1])} :
         IF found = {}
         THEN Set(t, [tasks[t] EXCEPT !.pc = "m_answer", !.qp = << >>,
                                      !.res = Res("CantFind", tasks[t].qp[1], {})])
         ELSE \E doc \in found :
                Set(t, [tasks[t] EXCEPT !.pc = "m_answer", !.qp = << >>,
                                        !.res = Res("UserInfo", IntToStr(doc), {})])
    /\ UNCHANGED <<handle, whisper_messages, users, nQueries, nPresses, hist>>

MsgAnswer(t) ==
    /\ tasks[t].pc = "m_answer"
    /\ CanRun(t)
    /\ Set(t, Idle)
    /\ UNCHANGED <<handle, whisper_messages, users, nQueries, nPresses, hist>>

(* ------------------ show_message_callback (lines 302-322) -------------- *)
ShowPress(t, u, data) ==
    /\ nPresses < MaxPresses
    /\ CanStart
    /\ Free(t)
    /\ MatchesCallback(data, ShowPrefix)
    /\ Set(t, NewTask("show", "s_check", u, NoName, << >>, CallbackId(data, ShowPrefix)))
    /\ nPresses' = nPresses + 1
    /\ UNCHANGED <<handle, whisper_messages, users, nQueries, hist>>

\* line 309: if message_id not in whisper_messages
ShowCheck(t) ==
    /\ tasks[t].pc = "s_check"
    /\ CanRun(t)
    /\ IF tasks[t].mid \notin DOMAIN whisper_messages
       THEN Set(t, [tasks[t] EXCEPT !.pc = "s_answer",
                                    !.res = Res("Expired", << >>, {})])
       ELSE Set(t, [tasks[t] EXCEPT !.pc = "s_read"])
    /\ UNCHANGED <<handle, whisper_messages, users, nQueries, nPresses, hist>>

\* an exception leaves the handler: the dispatcher logs it, nothing is answered
Raise(t) == Set(t, Idle)

\* lines 314-322: whisper_messages[message_id] (a KeyError when the key is
\* gone), then the recipient check
ShowRead(t) ==
    /\ tasks[t].pc = "s_read"
    /\ CanRun(t)
    /\ IF tasks[t].mid \notin DOMAIN whisper_messages
       THEN Raise(t) /\ UNCHANGED whisper_messages
       ELSE /\ Set(t, [tasks[t] EXCEPT
                         !.pc = "s_answer",
                         !.res = ShowResult(whisper_messages[tasks[t].mid], tasks[t].user)])
            /\ whisper_messages' = StoreAfterShow(whisper_messages, tasks[t].mid)
    /\ UNCHANGED <<handle, users, nQueries, nPresses, hist>>

\* await callback_query.answer(text, show_alert=True)
ShowAnswer(t) ==
    /\ tasks[t].pc = "s_answer"
    /\ CanRun(t)
    /\ Set(t, Idle)
    /\ UNCHANGED <<handle, whisper_messages, users, nQueries, nPresses, hist>>

(* ----------------- delete_message_callback (lines 324-355) ------------- *)
DelPress(t, u, data) ==
    /\ nPresses < MaxPresses
    /\ CanStart
    /\ Free(t)
    /\ MatchesCallback(data, DelPrefix)
    /\ Set(t, NewTask("del", "d_check", u, NoName, << >>, CallbackId(data, DelPrefix)))
    /\ nPresses' = nPresses + 1
    /\ UNCHANGED <<handle, whisper_messages, users, nQueries, hist>>

\* line 331: if message_id not in whisper_messages
DelCheck(t) ==
    /\ tasks[t].pc = "d_check"
    /\ CanRun(t)
    /\ IF tasks[t].mid \notin DOMAIN whisper_messages
       THEN Set(t, [tasks[t] EXCEPT !.pc = "d_answer",
                                    !.res = Res("AlreadyDeleted", << >>, {})])
       ELSE Set(t, [tasks[t] EXCEPT !.pc = "d_read"])
    /\ UNCHANGED <<handle, whisper_messages, users, nQueries, nPresses, hist>>

\* lines 336-341: read the entry, check the sender, delete
DelRead(t) ==
    /\ tasks[t].pc = "d_read"
    /\ CanRun(t)
    /\ IF tasks[t].mid \notin DOMAIN whisper_messages
       THEN Raise(t) /\ UNCHANGED whisper_messages
       ELSE IF IsSender(whisper_messages[tasks[t].mid], tasks[t].user)
       THEN /\ whisper_messages' = Remove(whisper_messages, tasks[t].mid)
            /\ Set(t, [tasks[t] EXCEPT !.pc = "d_answer",
                                       !.res = Res("Deleted", << >>, {})])
       ELSE /\ Set(t, [tasks[t] EXCEPT !.pc = "d_answer",
                                       !.res = Res("OnlySender", << >>, {})])
            /\ UNCHANGED whisper_messages
    /\ UNCHANGED <<handle, users, nQueries, nPresses, hist>>

\* await callback_query.answer(...); only the ok branch goes on to the edit
DelAnswer(t) ==
    /\ tasks[t].pc = "d_answer"
    /\ CanRun(t)
    /\ IF EditsAfter(tasks[t].res)
       THEN Set(t, [tasks[t] EXCEPT !.pc = "d_edit"])
       ELSE Set(t, Idle)
    /\ hist' = IF /\ tasks[t].res.kind = "Deleted"
                  /\ hist.state = "live"
                  /\ hist.id = tasks[t].mid
                  /\ hist.entry.sender_id = tasks[t].user
               THEN [hist EXCEPT !.state = "deleted"]
               ELSE hist
    /\ UNCHANGED <<handle, whisper_messages, users, nQueries, nPresses>>

\* await callback_query.edit_message_text(...): the placeholder replaces the
\* posted content, or BadRequest is raised and the except clause is entered
DelEdit(t) ==
    /\ tasks[t].pc = "d_edit"
    /\ CanRun(t)
    /\ \/ Set(t, Idle)
       \/ Set(t, [tasks[t] EXCEPT !.pc = "d_except"])
    /\ UNCHANGED <<handle, whisper_messages, users, nQueries, nPresses, hist>>

\* except BadRequest: pass
DelExcept(t) ==
    /\ tasks[t].pc = "d_except"
    /\ CanRun(t)
    /\ Set(t, Idle)
    /\ UNCHANGED <<handle, whisper_messages, users, nQueries, nPresses, hist>>

(* ---------------------- start_command (lines 357-381) ------------------ *)
StartCommand(t, u) ==
    /\ CanStart
    /\ Free(t)
    /\ Set(t, NewTask("start", "c_upsert", u, handle[u], << >>, 0))
    /\ UNCHANGED <<handle, whisper_messages, users, nQueries, nPresses, hist>>

\* await store_user_info(message.from_user)
StartUpsert(t) ==
    /\ tasks[t].pc = "c_upsert"
    /\ CanRun(t)
    /\ \/ UpsertFails(t)
       \/ /\ users' = store_user_info(users, tasks[t].user, tasks[t].uname)
          /\ Set(t, [tasks[t] EXCEPT !.pc = "c_getme1", !.uname = NoName])
          /\ UNCHANGED <<handle, whisper_messages, nQueries, nPresses, hist>>

\* the two awaits of client.get_me() inside the text of the reply
GetMe(t) ==
    /\ tasks[t].pc \in {"c_getme1", "c_getme2", "h_getme1", "h_getme2"}
    /\ CanRun(t)
    /\ Set(t, [tasks[t] EXCEPT
                 !.pc = CASE tasks[t].pc = "c_getme1" -> "c_getme2"
                          [] tasks[t].pc = "c_getme2" -> "c_reply"
                          [] tasks[t].pc = "h_getme1" -> "h_getme2"
                          [] tasks[t].pc = "h_getme2" -> "h_reply",
                 !.res = IF tasks[t].pc = "c_getme2"
                         THEN Res("Welcome", << >>, {})
                         ELSE IF tasks[t].pc = "h_getme2"
                         THEN Res("Help", << >>, {})
                         ELSE NoRes])
    /\ UNCHANGED <<handle, whisper_messages, users, nQueries, nPresses, hist>>

\* await message.reply(...)
Reply(t) ==
    /\ tasks[t].pc \in {"c_reply", "h_reply"}
    /\ CanRun(t)
    /\ Set(t, Idle)
    /\ UNCHANGED <<handle, whisper_messages, users, nQueries, nPresses, hist>>

(* ----------------------- help_command (lines 383-402) ------------------ *)
\* no call of store_user_info: the handler starts at the first get_me
HelpCommand(t, u) ==
    /\ CanStart
    /\ Free(t)
    /\ Set(t, NewTask("help", "h_getme1", u, handle[u], << >>, 0))
    /\ UNCHANGED <<handle, whisper_messages, users, nQueries, nPresses, hist>>

(* ------------------- the platform, outside the program ----------------- *)
\* a principal takes, changes or drops its handle; the platform gives a
\* handle to one principal at a time. user.username (line 111) is read from
\* the event, so handlers see the handle of the moment the event was made.
Rename(u, name) ==
    /\ name # handle[u]
    /\ name # NoName => \A o \in UserIds : handle[o] # name
    /\ handle' = [handle EXCEPT ![u] = name]
    /\ UNCHANGED <<whisper_messages, users, tasks, nQueries, nPresses, hist>>

(* ------------------------------- Next ---------------------------------- *)
Next ==
    \E t \in Tasks :
       \/ \E u \in UserIds, q \in InlineQueries :
             \/ WsprQuery(t, u, q)
             \/ MsgQuery(t, u, q)
       \/ \E u \in UserIds, data \in CallbackDatas :
             \/ ShowPress(t, u, data)
             \/ DelPress(t, u, data)
       \/ WsprUpsert(t) \/ WsprLookup(t) \/ WsprAnswer(t)
       \/ MsgUpsert(t) \/ MsgLookup(t) \/ MsgAnswer(t)
       \/ ShowCheck(t) \/ ShowRead(t) \/ ShowAnswer(t)
       \/ DelCheck(t) \/ DelRead(t) \/ DelAnswer(t) \/ DelEdit(t) \/ DelExcept(t)

Spec == Init /\ [][Next]_vars

\* the profile directory on its own: commands, user-info queries and changes
\* of handle, with the secret store left empty
NextDir ==
    \/ \E t \in Tasks :
          \/ \E u \in UserIds :
                \/ StartCommand(t, u)
                \/ HelpCommand(t, u)
                \/ \E q \in MsgQueries : MsgQuery(t, u, q)
          \/ StartUpsert(t) \/ GetMe(t) \/ Reply(t)
          \/ MsgUpsert(t) \/ MsgLookup(t) \/ MsgAnswer(t)
    \/ \E u \in UserIds, name \in Usernames \cup {NoName} : Rename(u, name)

SpecDir == Init /\ [][NextDir]_vars

(* ------------------------------ claims --------------------------------- *)
Stepped(t) == tasks'[t] # tasks[t]

Pending(id) == id \in DOMAIN whisper_messages

\* a show handler decides its answer in this step
ShowDecides(t) ==
    /\ tasks[t].kind = "show" /\ tasks[t].pc \in {"s_check", "s_read"}
    /\ tasks'[t].kind = "show" /\ tasks'[t].pc = "s_answer"

\* a delete handler decides its answer in this step
DelDecides(t) ==
    /\ tasks[t].kind = "del" /\ tasks[t].pc \in {"d_check", "d_read"}
    /\ tasks'[t].kind = "del" /\ tasks'[t].pc = "d_answer"

\* C1: a reveal of a pending identifier by a principal other than the entry's
\* recipient is answered "not for you", never with the body
C1_OthersAreDenied ==
    [][\A t \in Tasks :
         (/\ tasks[t].kind = "show" /\ tasks[t].pc = "s_read" /\ Stepped(t)
          /\ Pending(tasks[t].mid)
          /\ tasks[t].user # whisper_messages[tasks[t].mid].target_id)
         => /\ tasks'[t].pc = "s_answer"
            /\ tasks'[t].res = Res("NotForYou", << >>, {})]_vars

\* the sender of a whisper addressed to someone else pressed show, was denied,
\* and the entry is still pending
C1_Witness ==
    \E t \in Tasks :
       /\ tasks[t].kind = "show" /\ tasks[t].pc = "s_answer"
       /\ tasks[t].res.kind = "NotForYou"
       /\ Pending(tasks[t].mid)
       /\ whisper_messages[tasks[t].mid].sender_id = tasks[t].user
       /\ whisper_messages[tasks[t].mid].target_id # tasks[t].user

C3_OthersCannotDelete ==
    /\ [][\A t \in Tasks :
            (/\ tasks[t].kind = "del" /\ tasks[t].pc = "d_read" /\ Stepped(t)
             /\ Pending(tasks[t].mid)
             /\ tasks[t].user # whisper_messages[tasks[t].mid].sender_id)
            => /\ tasks'[t].pc = "d_answer"
               /\ tasks'[t].res = Res("OnlySender", << >>, {})
               /\ whisper_messages' = whisper_messages]_vars
    /\ [][\A t \in Tasks :
            (tasks[t].pc = "d_answer" /\ tasks[t].res.kind = "OnlySender" /\ Stepped(t))
            => tasks'[t].kind = "idle"]_vars
    /\ [][\A t \in Tasks :
            (/\ tasks[t].kind = "show" /\ tasks[t].pc = "s_read" /\ Stepped(t)
             /\ Pending(tasks[t].mid)
             /\ tasks[t].user = whisper_messages[tasks[t].mid].target_id)
            => tasks'[t].res =
                 Res("Body", whisper_messages[tasks[t].mid].message_text, {})]_vars

\* the recipient of a whisper sent by someone else pressed delete, was denied,
\* and the entry is still pending
C3_Witness ==
    \E t \in Tasks :
       /\ tasks[t].kind = "del" /\ tasks[t].pc = "d_answer"
       /\ tasks[t].res.kind = "OnlySender"
       /\ Pending(tasks[t].mid)
       /\ whisper_messages[tasks[t].mid].target_id = tasks[t].user
       /\ whisper_messages[tasks[t].mid].sender_id # tasks[t].user

C5_DeletedStaysHidden ==
    [][\A t \in Tasks :
         (/\ ShowDecides(t)
          /\ hist.state = "deleted" /\ hist.id = tasks[t].mid
          /\ tasks[t].user = hist.entry.target_id)
         => tasks'[t].res.kind = "Expired"]_vars

\* C6: the identifier under which a whisper is registered is not pending at
\* the moment of the registration
C6_FreshIdentifier ==
    [][\A t \in Tasks :
         (tasks[t].pc = "w_lookup" /\ tasks'[t].res.kind = "Whisper")
         => ~Pending(tasks'[t].mid)]_vars

\* C7: no step of a show handler, whoever pressed and whatever the
\* identifier, changes whisper_messages
C7_ShowLeavesStore ==
    [][\A t \in Tasks :
         ((tasks[t].kind = "show" \/ tasks'[t].kind = "show") /\ Stepped(t))
         => whisper_messages' = whisper_messages]_vars

\* the recipient has read the body and the entry is still pending, unchanged
C7_Witness ==
    \E t \in Tasks :
       /\ tasks[t].kind = "show" /\ tasks[t].pc = "s_answer"
       /\ tasks[t].res.kind = "Body"
       /\ Pending(tasks[t].mid)
       /\ whisper_messages[tasks[t].mid].target_id = tasks[t].user
       /\ whisper_messages[tasks[t].mid].message_text = tasks[t].res.text

\* C8: a show handler that found the entry present reads it while it is still
\* present, with a concurrent delete or without: it never raises between the
\* check and the read, and answers from the whole entry or "expired"
C8_NoTornReveal ==
    /\ [](\A t \in Tasks : tasks[t].pc = "s_read" => Pending(tasks[t].mid))
    /\ [][\A t \in Tasks :
            (tasks[t].kind = "show" /\ tasks[t].pc \in {"s_check", "s_read"} /\ Stepped(t))
            => /\ tasks'[t].kind = "show"
               /\ tasks'[t].pc = "s_answer" =>
                    tasks'[t].res \in
                      IF Pending(tasks[t].mid)
                      THEN {Res("Body", whisper_messages[tasks[t].mid].message_text, {}),
                            Res("NotForYou", << >>, {})}
                      ELSE {Res("Expired", << >>, {})}]_vars

\* a reveal and a delete of one identifier are in flight together: the reveal
\* saw the entry, the delete has removed it
C8_Witness ==
    \E t1, t2 \in Tasks :
       /\ tasks[t1].kind = "show" /\ tasks[t1].pc = "s_answer"
       /\ tasks[t1].res.kind = "Body"
       /\ tasks[t2].kind = "del" /\ tasks[t2].mid = tasks[t1].mid
       /\ tasks[t2].res.kind = "Deleted"
       /\ ~Pending(tasks[t1].mid)

\* the target text names a stored principal: its id in digits, or its handle
\* with or without one leading "@"
NamesStored(target, u) ==
    /\ users[u].present
    /\ \/ IsDigitStr(target) /\ StrToInt(target) = u
       \/ /\ ~IsDigitStr(target)
          /\ users[u].username # NoName
          /\ target \in {users[u].username, <<"@">> \o users[u].username}

\* C9: a whisper query changes the store and hands out buttons only when its
\* target names a stored principal and a body follows it; otherwise the store
\* is as it was and the answer carries no button
C9_RegistersOnlyWellFormed ==
    [][\A t \in Tasks :
         (tasks[t].kind = "wspr" /\ Stepped(t))
         => LET qp == tasks[t].qp
                wellFormed ==
                    /\ Len(qp) >= 1
                    /\ Len(SplitOnce(qp[1])) = 2
                    /\ Len(SplitOnce(qp[1])[2]) > 0
                    /\ \E u \in UserIds : NamesStored(SplitOnce(qp[1])[1], u)
            IN  \/ /\ whisper_messages' = whisper_messages
                   /\ tasks'[t].res.buttons = {}
                   /\ tasks'[t].res.kind # "Whisper"
                \/ /\ wellFormed
                   /\ tasks[t].pc = "w_lookup"
                   /\ tasks'[t].res.kind = "Whisper"]_vars

\* a query whose target resolves but whose body is missing has been turned
\* down while an earlier whisper is pending
C9_Witness ==
    \E t \in Tasks :
       /\ tasks[t].kind = "wspr" /\ tasks[t].pc = "w_answer"
       /\ tasks[t].res.kind = "TypeMessage"
       /\ whisper_messages # << >>

\* C10: the handler of an inline query ends only by its answer call
C10_AlwaysAnswered ==
    [][\A t \in Tasks :
         (tasks[t].kind \in {"wspr", "msg"} /\ tasks'[t].kind = "idle")
         => tasks[t].pc \in {"w_answer", "m_answer"}]_vars

\* the target text of an inline query in flight: the first word after "wspr",
\* everything after "msg"
LookupTarget(t) ==
    IF tasks[t].kind = "wspr" THEN TargetAndBody(tasks[t].qp)[1] ELSE tasks[t].qp[1]

\* C11: an inline query during which the profile store fails is answered
\* "try again": a handler whose upsert left the sender unstored, or whose
\* lookup found nothing for a target that names a stored principal, goes on
\* to answer with that text
C11_FailureAnswersTryAgain ==
    [][\A t \in Tasks :
         (tasks[t].kind \in {"wspr", "msg"} /\ Stepped(t))
         => /\ (/\ tasks[t].pc \in {"w_upsert", "m_upsert"}
                /\ ~users'[tasks[t].user].present)
               => /\ tasks'[t].pc \in {"w_answer", "m_answer"}
                  /\ tasks'[t].res.kind = "TryAgain"
            /\ (/\ tasks[t].pc \in {"w_lookup", "m_lookup"}
                /\ \E u \in UserIds : NamesStored(LookupTarget(t), u)
                /\ tasks'[t].res.kind \notin {"Whisper", "TypeMessage", "UserInfo"})
               => tasks'[t].res.kind = "TryAgain"]_vars

\* the positions from which a handler ends by its last call, not by an
\* exception
LastCalls ==
    {"w_answer", "m_answer", "s_answer", "d_answer", "d_edit", "d_except",
     "c_reply", "h_reply"}

\* C12: once the handler of any event from a principal (wspr or msg query,
\* show or delete press, /start, /help) has run to its end, the principal's
\* profile is stored and its identifier resolves to it
C12_EveryEventStoresProfile ==
    [][\A t \in Tasks :
         (/\ tasks[t].kind # "idle" /\ tasks'[t].kind = "idle"
          /\ tasks[t].pc \in LastCalls)
         => /\ users'[tasks[t].user].present
            /\ get_user_info(users', IntToStr(tasks[t].user)) = {tasks[t].user}]_vars

\* texts handed to get_user_info: those of the queries, and a few more with
\* leading zeros, a doubled or lone "@", and a handle nobody has
Probes ==
    TargetTexts \cup {<<"0", "1">>, <<"0", "0", "2">>, <<"@", "@", "a">>,
                      <<"@">>, <<"b">>, <<"@", "1">>, <<"1", "a">>}

\* C13: get_user_info treats an all-digit text as an identifier and any other
\* text as a handle with one leading "@" removed: it finds exactly the stored
\* principals the text names, the same for "@h" and "h", none for an unknown
\* identifier or handle; the lookup step of a query never ends the handler
\* and answers with a principal only if the target names it
C13_Resolve ==
    /\ [](\A p \in Probes :
            get_user_info(users, p) = {u \in UserIds : NamesStored(p, u)})
    /\ [](\A u \in UserIds :
            /\ users[u].present => get_user_info(users, IntToStr(u)) = {u}
            /\ ~users[u].present => get_user_info(users, IntToStr(u)) = {})
    /\ [](\A h \in Usernames :
            /\ get_user_info(users, <<"@">> \o h) = get_user_info(users, h)
            /\ \A u \in UserIds :
                 (users[u].present /\ users[u].username = h)
                 => u \in get_user_info(users, h))
    /\ [][\A t \in Tasks :
            (tasks[t].pc = "m_lookup" /\ Stepped(t))
            => /\ tasks'[t].pc = "m_answer"
               /\ tasks'[t].res.kind \in {"UserInfo", "CantFind"}
               /\ tasks'[t].res.kind = "UserInfo"
                    => NamesStored(tasks[t].qp[1], StrToInt(tasks'[t].res.text))
               /\ (\A u \in UserIds : ~NamesStored(tasks[t].qp[1], u))
                    => tasks'[t].res.kind = "CantFind"]_vars

\* one query has been answered with the profile of a principal that has a
\* stored handle, another with "can't find" for a text that names nobody
C13_Witness ==
    \E t1, t2 \in Tasks :
       /\ tasks[t1].pc = "m_answer" /\ tasks[t1].res.kind = "UserInfo"
       /\ users[StrToInt(tasks[t1].res.text)].username \in Usernames
       /\ tasks[t2].pc = "m_answer" /\ tasks[t2].res.kind = "CantFind"
       /\ \A u \in UserIds : ~NamesStored(tasks[t2].res.text, u)

\* C14: after a successful upsert for a principal its stored profile carries
\* exactly the handle the event carried (none when the principal has none),
\* no other profile has changed, and the same upsert applied again changes
\* nothing
C14_UpsertReplaces ==
    [][\A t \in Tasks :
         (/\ tasks[t].pc \in {"w_upsert", "m_upsert", "c_upsert"}
          /\ Stepped(t) /\ tasks'[t].kind # "idle")
         => /\ users'[tasks[t].user] = Doc(tasks[t].uname)
            /\ \A o \in UserIds \ {tasks[t].user} : users'[o] = users[o]
            /\ store_user_info(users', tasks[t].user, tasks[t].uname) = users']_vars

\* C15: no two stored profiles carry the same handle
C15_HandleUnique ==
    \A u1, u2 \in UserIds :
       (/\ u1 # u2
        /\ users[u1].present /\ users[u2].present
        /\ users[u1].username # NoName)
       => users[u1].username # users[u2].username

\* C16: a delete handler edits the posted content only after it has answered
\* "deleted", and it decides that answer in the step that removes the entry;
\* the edit and its except clause leave the store as it is and the except
\* clause ends the handler; a denied or not-found delete ends with its answer
C16_EditOnlyAfterRemoval ==
    /\ [](\A t \in Tasks :
            tasks[t].pc \in {"d_edit", "d_except"} => tasks[t].res.kind = "Deleted")
    /\ [][\A t \in Tasks :
            (tasks'[t].pc = "d_edit" /\ tasks[t].pc # "d_edit")
            => tasks[t].pc = "d_answer" /\ tasks[t].res.kind = "Deleted"]_vars
    /\ [][\A t \in Tasks :
            (tasks'[t].res.kind = "Deleted" /\ tasks[t].res.kind # "Deleted")
            => /\ tasks[t].pc = "d_read"
               /\ Pending(tasks[t].mid)
               /\ whisper_messages[tasks[t].mid].sender_id = tasks[t].user
               /\ tasks[t].mid \notin DOMAIN whisper_messages']_vars
    /\ [][\A t \in Tasks :
            (tasks[t].pc \in {"d_answer", "d_edit", "d_except"} /\ Stepped(t))
            => /\ whisper_messages' = whisper_messages
               /\ tasks[t].pc = "d_except" => tasks'[t].kind = "idle"]_vars
    /\ [][\A t \in Tasks :
            (/\ tasks[t].pc = "d_answer" /\ Stepped(t)
             /\ tasks[t].res.kind \in {"OnlySender", "AlreadyDeleted"})
            => tasks'[t].kind = "idle"]_vars

\* the sender's delete removed the entry and its edit has failed, while a
\* second delete of the same identifier was answered "already deleted"
C16_Witness ==
    \E t1, t2 \in Tasks :
       /\ tasks[t1].kind = "del" /\ tasks[t1].pc = "d_except"
       /\ tasks[t1].res.kind = "Deleted"
       /\ ~Pending(tasks[t1].mid)
       /\ tasks[t2].kind = "del" /\ tasks[t2].pc = "d_answer"
       /\ tasks[t2].mid = tasks[t1].mid
       /\ tasks[t2].res.kind = "AlreadyDeleted"

\* C17: the step that puts the show_<id> and del_<id> tokens into an answer
\* is the step that stores the entry for <id>, with the querying principal as
\* its sender; the answer is sent in a later step, so the tokens of an answer
\* name an identifier under which the entry has been stored
C17_RegisterBeforeTokens ==
    /\ [](\A t \in Tasks :
            tasks[t].res.buttons # {}
            => /\ tasks[t].kind = "wspr" /\ tasks[t].pc = "w_answer"
               /\ tasks[t].res.buttons = {ShowData(tasks[t].mid), DelData(tasks[t].mid)})
    /\ [][\A t \in Tasks :
            (tasks'[t].res.buttons # {} /\ tasks[t].res.buttons = {})
            => /\ tasks[t].pc = "w_lookup"
               /\ tasks'[t].mid \in DOMAIN whisper_messages'
               /\ whisper_messages'[tasks'[t].mid].sender_id = tasks[t].user
               /\ whisper_messages'[tasks'[t].mid].message_text = tasks'[t].res.text]_vars
    /\ [][\A t \in Tasks :
            (tasks[t].pc = "w_answer" /\ Stepped(t))
            => tasks'[t].kind = "idle" /\ whisper_messages' = whisper_messages]_vars

\* an answer with the two tokens waits to be sent and the entry they name is
\* in the store
C17_Witness ==
    \E t \in Tasks :
       /\ tasks[t].pc = "w_answer"
       /\ tasks[t].res.buttons = {ShowData(tasks[t].mid), DelData(tasks[t].mid)}
       /\ Pending(tasks[t].mid)
       /\ whisper_messages[tasks[t].mid].sender_id = tasks[t].user

\* C18: a registration adds one entry under an identifier that was not in the
\* store, made of the resolved target's id, the querying principal's id and
\* the text after the target; and an entry of the store is removed or changed
\* only by the delete step of a handler run for the entry's own sender
C18_OnlySenderTouchesEntry ==
    /\ [][\A t \in Tasks :
            (tasks[t].pc = "w_lookup" /\ tasks'[t].res.kind = "Whisper")
            => LET id == tasks'[t].mid
               IN  /\ DOMAIN whisper_messages' = DOMAIN whisper_messages \cup {id}
                   /\ id \notin DOMAIN whisper_messages
                   /\ NamesStored(TargetAndBody(tasks[t].qp)[1],
                                  whisper_messages'[id].target_id)
                   /\ whisper_messages'[id].sender_id = tasks[t].user
                   /\ whisper_messages'[id].message_text = TargetAndBody(tasks[t].qp)[2]
                   /\ \A i \in DOMAIN whisper_messages :
                        whisper_messages'[i] = whisper_messages[i]]_vars
    /\ [][\A i \in DOMAIN whisper_messages :
            (i \notin DOMAIN whisper_messages' \/ whisper_messages'[i] # whisper_messages[i])
            => \E t \in Tasks :
                 /\ tasks[t].kind = "del" /\ tasks[t].pc = "d_read" /\ Stepped(t)
                 /\ tasks[t].mid = i
                 /\ tasks[t].user = whisper_messages[i].sender_id]_vars

\* C19: a whisper handler upserts the sender before it decides any answer;
\* "give username" is decided with that upsert, without a lookup; after the
\* lookup a target that names nobody is answered "user not found" whether or
\* not a body follows, and "type your message" is decided only for a target
\* that names a stored principal and has no body
C19_OrderOfChecks ==
    /\ [](\A t \in Tasks :
            (tasks[t].kind = "wspr" /\ tasks[t].pc \in {"w_lookup", "w_answer"})
            => users[tasks[t].user].present)
    /\ [][\A t \in Tasks :
            (tasks[t].kind = "wspr" /\ tasks[t].res.kind = "none"
             /\ tasks'[t].res.kind = "GiveUsername")
            => /\ tasks[t].pc = "w_upsert"
               /\ Len(tasks[t].qp) = 0
               /\ users' = store_user_info(users, tasks[t].user, tasks[t].uname)]_vars
    /\ [][\A t \in Tasks :
            (tasks[t].pc = "w_upsert" /\ Stepped(t) /\ tasks'[t].kind # "idle")
            => /\ users'[tasks[t].user].present
               /\ tasks'[t].pc = "w_lookup" <=> Len(tasks[t].qp) >= 1
               /\ tasks'[t].pc = "w_answer" <=> tasks'[t].res.kind = "GiveUsername"]_vars
    /\ [][\A t \in Tasks :
            (tasks[t].pc = "w_lookup" /\ Stepped(t))
            => LET named == \E u \in UserIds : NamesStored(LookupTarget(t), u)
               IN  /\ tasks'[t].pc = "w_answer"
                   /\ tasks'[t].res.kind \in {"UserNotFound", "TypeMessage", "Whisper"}
                   /\ ~named => tasks'[t].res.kind = "UserNotFound"
                   /\ tasks'[t].res.kind = "TypeMessage"
                        => named /\ ~HasBody(tasks[t].qp)
                   /\ tasks'[t].res.kind = "Whisper"
                        => named /\ HasBody(tasks[t].qp)]_vars

\* one query was answered "user not found"; another, whose target names
\* nobody and which has no body, has had its sender stored and waits for its
\* lookup
C19_Witness ==
    \E t1, t2 \in Tasks :
       /\ tasks[t1].kind = "wspr" /\ tasks[t1].pc = "w_answer"
       /\ tasks[t1].res.kind = "UserNotFound"
       /\ tasks[t2].kind = "wspr" /\ tasks[t2].pc = "w_lookup"
       /\ ~HasBody(tasks[t2].qp)
       /\ \A u \in UserIds : ~NamesStored(LookupTarget(t2), u)
       /\ users[tasks[t2].user].present

====
